---- MODULE Spec2Model ----
(***************************************************************************)
(* The three SSH helper scripts of scripts/: download_file                 *)
(* (ssh_download.py), run_ssh_command with its command line (ssh_mac.py)   *)
(* and run_interactive_ssh (ssh_mac_interactive.py).                       *)
(*                                                                         *)
(* One behaviour is one invocation of one entry point.  The SSH library is *)
(* the environment: every library call either completes or raises an       *)
(* exception, recv_ready() answers either way, recv() returns any chunk.   *)
(*                                                                         *)
(* Text is a sequence of code points, bytes are a sequence of integers     *)
(* 0..255.  Time is counted in ticks of one poll sleep, time.sleep(0.1).   *)
(***************************************************************************)
EXTENDS Integers, Sequences, FiniteSets, TLC

VARIABLES
    fn,         \* the entry point that was called
    pc,         \* position in its body
    exc,        \* str(e) of the exception being handled, NoneVal if none
    completed,  \* library calls that returned normally
    closes,     \* number of client.close() calls so far
    ret,        \* "unset", "True", "False" or "pair"
    retOut,     \* run_ssh_command: first component of the returned pair
    retErr,     \* run_ssh_command: second component of the returned pair
    argv,       \* ssh_mac.py: sys.argv
    command,    \* ssh_mac.py: command chosen by __main__
    executed,   \* command string handed to exec_command
    rout,       \* bytes the remote command writes to stdout
    rerr,       \* bytes the remote command writes to stderr
    output,     \* local `output` (run_ssh_command and run_interactive_ssh)
    errors,     \* local `errors` (run_ssh_command)
    commands,   \* run_interactive_ssh: the command queue
    cur,        \* index of the command the for loop is at (0 before the loop)
    sent,       \* what channel.send has been given, in order
    idle,       \* time.time() - start_time, in ticks
    printed,    \* channel output echoed by print(data, end='')
    chunk,      \* raw bytes of the last recv() of a collection loop
    reads,      \* chunks received so far that decoded to some text
    ready,      \* last answer of channel.recv_ready()
    settled,    \* settle delays completed
    finished,   \* collection loops left through the window test
    waited,     \* ticks slept between invoke_shell and the first send
    silence,    \* ticks since the channel last delivered a chunk to this
                \* loop, or since the loop started (at most Window)
    halfGap     \* a read of this loop came after half a window of silence

vars == <<fn, pc, exc, completed, closes, ret, retOut, retErr, argv, command,
          executed, rout, rerr, output, errors, commands, cur, sent, idle,
          printed, chunk, reads, ready, settled, finished, waited, silence,
          halfGap>>

runVars == <<argv, command, executed, rout, rerr, errors>>
shellVars == <<commands, cur, sent, idle, printed, chunk, reads, ready,
               settled, finished, waited, silence, halfGap>>

----------------------------------------------------------------------------
(* Bounds of the model *)

MaxCmds == 2
MaxReads == 2
MaxArgs == 2
MaxStream == 2

(* Program constants *)

WindowSeconds == 30
TicksPerSecond == 10
SettleSeconds == 2
ShellWaitSeconds == 1

Window == WindowSeconds * TicksPerSecond
PollSleep == 1

NoneVal == <<-1>>
Newline == <<10>>
Space == <<32>>
ReplacementMarker == <<65533>>

\* "pwd && ls -la"
DefaultCommand == <<112, 119, 100, 32, 38, 38, 32, 108, 115, 32, 45, 108, 97>>

----------------------------------------------------------------------------
(* Inputs *)

Bytes == {65, 195, 169}

RECURSIVE SeqsUpTo(_, _)
SeqsUpTo(S, n) ==
    IF n = 0 THEN {<<>>}
    ELSE LET shorter == SeqsUpTo(S, n - 1)
         IN  shorter \cup {Append(s, x) : s \in shorter, x \in S}

Streams == SeqsUpTo(Bytes, MaxStream)

\* what one recv(4096) may return: a two-byte character, a stray
\* continuation byte, ASCII followed by a lead byte cut off by the chunk end
Chunks == {<<195, 169>>, <<169>>, <<65, 195>>}

Arg(k) == <<97, 48 + k>>
Cmd(k) == <<99, 48 + k>>
ScriptName == <<115>>

ArgLists == {<<ScriptName>> \o [k \in 1..n |-> Arg(k)] : n \in 0..MaxArgs}
CommandLists == {[k \in 1..n |-> Cmd(k)] : n \in 0..MaxCmds}

ExcMsgs == {<<69, 49>>, <<69, 50>>}
DecodeErrorMsg == <<69, 51>>

----------------------------------------------------------------------------
(* bytes.decode('utf-8', errors=...) on the byte alphabet of the model:    *)
(* one-byte and two-byte sequences; every other byte is malformed where it *)
(* stands.  "ignore" drops a malformed byte, "replace" puts U+FFFD for it, *)
(* "strict" raises (see Malformed).                                        *)

IsContinuation(b) == b >= 128 /\ b <= 191
IsLead2(b) == b >= 194 /\ b <= 223

RECURSIVE decode(_, _)
decode(bs, errorsMode) ==
    IF bs = <<>> THEN <<>>
    ELSE IF bs[1] < 128
         THEN <<bs[1]>> \o decode(Tail(bs), errorsMode)
    ELSE IF IsLead2(bs[1]) /\ Len(bs) >= 2 /\ IsContinuation(bs[2])
         THEN <<(bs[1] - 192) * 64 + (bs[2] - 128)>>
                  \o decode(Tail(Tail(bs)), errorsMode)
    ELSE (IF errorsMode = "ignore" THEN <<>> ELSE ReplacementMarker)
             \o decode(Tail(bs), errorsMode)

Malformed(bs) ==
    \E i \in 1..Len(decode(bs, "replace")) :
        <<decode(bs, "replace")[i]>> = ReplacementMarker

\* ssh_mac_interactive.py: recv(4096).decode('utf-8', errors='ignore')
recv_decode_replace(bs) == decode(bs, "replace")
recv_decode(bs) == decode(bs, "ignore")

----------------------------------------------------------------------------
Init ==
    /\ fn \in {"download_file", "run_ssh_command", "run_interactive_ssh"}
    /\ pc = IF fn = "run_ssh_command" THEN "main" ELSE "connect"
    /\ exc = NoneVal
    /\ completed = {}
    /\ closes = 0
    /\ ret = "unset"
    /\ retOut = NoneVal
    /\ retErr = NoneVal
    /\ argv \in IF fn = "run_ssh_command" THEN ArgLists ELSE {<<ScriptName>>}
    /\ command = <<>>
    /\ executed = NoneVal
    /\ rout \in IF fn = "run_ssh_command" THEN Streams ELSE {<<>>}
    /\ rerr \in IF fn = "run_ssh_command" THEN Streams ELSE {<<>>}
    /\ output = <<>>
    /\ errors = <<>>
    /\ commands \in IF fn = "run_interactive_ssh" THEN CommandLists ELSE {<<>>}
    /\ cur = 0
    /\ sent = <<>>
    /\ idle = 0
    /\ printed = <<>>
    /\ chunk = <<>>
    /\ reads = 0
    /\ ready = FALSE
    /\ settled = 0
    /\ finished = 0
    /\ waited = 0
    /\ silence = 0
    /\ halfGap = FALSE

(* A library call inside the try block: it returns, or it raises an        *)
(* exception whose text is e.                                              *)
Returns(op, next) ==
    /\ completed' = completed \cup {op}
    /\ pc' = next
    /\ exc' = exc

RaisesAndContinues(e) ==
    /\ exc' = e
    /\ pc' = pc
    /\ completed' = completed

Raises(e) ==
    /\ exc' = e
    /\ pc' = "except"
    /\ completed' = completed

Call(op, next) ==
    \/ Returns(op, next)
    \/ \E e \in ExcMsgs : Raises(e)

----------------------------------------------------------------------------
(* Shared by the three entry points *)

AfterConnect ==
    CASE fn = "download_file" -> "open_sftp"
      [] fn = "run_ssh_command" -> "exec_command"
      [] fn = "run_interactive_ssh" -> "invoke_shell"

\* client.connect(..., timeout=30)
connect ==
    /\ pc = "connect"
    /\ Call("connect", AfterConnect)
    /\ UNCHANGED <<fn, closes, ret, retOut, retErr, output>>
    /\ UNCHANGED runVars
    /\ UNCHANGED shellVars

\* except Exception as e: print(f"Error: {e}"); return False / None, str(e)
except_handler_true ==
    /\ pc = "except"
    /\ ret' = IF fn = "run_ssh_command" THEN "pair" ELSE "True"
    /\ retOut' = IF fn = "run_ssh_command" THEN output ELSE retOut
    /\ retErr' = IF fn = "run_ssh_command" THEN errors ELSE retErr
    /\ pc' = "finally"
    /\ UNCHANGED <<fn, exc, completed, closes, output>>
    /\ UNCHANGED runVars
    /\ UNCHANGED shellVars

except_handler ==
    /\ pc = "except"
    /\ ret' = IF fn = "run_ssh_command" THEN "pair" ELSE "False"
    /\ retOut' = IF fn = "run_ssh_command" THEN NoneVal ELSE retOut
    /\ retErr' = IF fn = "run_ssh_command" THEN exc ELSE retErr
    /\ pc' = "finally"
    /\ UNCHANGED <<fn, exc, completed, closes, output>>
    /\ UNCHANGED runVars
    /\ UNCHANGED shellVars

\* finally: client.close()
finally_close_on_success ==
    /\ pc = "finally"
    /\ closes' = IF exc = NoneVal THEN closes + 1 ELSE closes
    /\ pc' = "done"
    /\ UNCHANGED <<fn, exc, completed, ret, retOut, retErr, output>>
    /\ UNCHANGED runVars
    /\ UNCHANGED shellVars

finally_close ==
    /\ pc = "finally"
    /\ closes' = closes + 1
    /\ pc' = "done"
    /\ UNCHANGED <<fn, exc, completed, ret, retOut, retErr, output>>
    /\ UNCHANGED runVars
    /\ UNCHANGED shellVars

----------------------------------------------------------------------------
(* download_file *)

open_sftp ==
    /\ pc = "open_sftp"
    /\ Call("open_sftp", "get")
    /\ UNCHANGED <<fn, closes, ret, retOut, retErr, output>>
    /\ UNCHANGED runVars
    /\ UNCHANGED shellVars

sftp_get ==
    /\ pc = "get"
    /\ Call("get", "sftp_close")
    /\ UNCHANGED <<fn, closes, ret, retOut, retErr, output>>
    /\ UNCHANGED runVars
    /\ UNCHANGED shellVars

\* sftp.close(); return True
sftp_close_return ==
    /\ pc = "sftp_close"
    /\ \/ /\ Returns("sftp_close", "finally")
          /\ ret' = "True"
       \/ /\ \E e \in ExcMsgs : Raises(e)
          /\ ret' = ret
    /\ UNCHANGED <<fn, closes, retOut, retErr, output>>
    /\ UNCHANGED runVars
    /\ UNCHANGED shellVars

----------------------------------------------------------------------------
(* ssh_mac.py: __main__ and run_ssh_command *)

Last(seq) == seq[Len(seq)]

RECURSIVE Join(_, _)
Join(strs, sep) ==
    IF strs = <<>> THEN <<>>
    ELSE IF Len(strs) = 1 THEN strs[1]
    ELSE strs[1] \o sep \o Join(Tail(strs), sep)

\* command = sys.argv[1] if len(sys.argv) > 1 else "pwd && ls -la"
main_command_last(args) == IF Len(args) > 1 THEN Last(args) ELSE DefaultCommand
main_command(args) == IF Len(args) > 1 THEN args[2] ELSE DefaultCommand

main ==
    /\ pc = "main"
    /\ command' = main_command(argv)
    /\ pc' = "connect"
    /\ UNCHANGED <<fn, exc, completed, closes, ret, retOut, retErr, output>>
    /\ UNCHANGED <<argv, executed, rout, rerr, errors>>
    /\ UNCHANGED shellVars

\* stdin, stdout, stderr = client.exec_command(command, timeout=300)
exec_command ==
    /\ pc = "exec_command"
    /\ Call("exec_command", "read_stdout")
    /\ executed' = command
    /\ UNCHANGED <<fn, closes, ret, retOut, retErr, output>>
    /\ UNCHANGED <<argv, command, rout, rerr, errors>>
    /\ UNCHANGED shellVars

(* stream.read().decode(): the read raises (the 300 s timeout, a transport *)
(* fault), or it returns the whole stream and the strict decode raises on  *)
(* malformed bytes, or the text is the result.                             *)
ReadDecode(stream, op, next) ==
    \/ \E e \in ExcMsgs : Raises(e)
    \/ /\ Malformed(stream)
       /\ Raises(DecodeErrorMsg)
    \/ /\ ~Malformed(stream)
       /\ Returns(op, next)

\* output = stdout.read().decode()
read_stdout ==
    /\ pc = "read_stdout"
    /\ ReadDecode(rout, "read_stdout", "read_stderr")
    /\ output' = IF pc' = "except" THEN output ELSE decode(rout, "strict")
    /\ UNCHANGED <<fn, closes, ret, retOut, retErr>>
    /\ UNCHANGED runVars
    /\ UNCHANGED shellVars

\* errors = stderr.read().decode()
read_stderr ==
    /\ pc = "read_stderr"
    /\ ReadDecode(rerr, "read_stderr", "return")
    /\ errors' = IF pc' = "except" THEN errors ELSE decode(rerr, "strict")
    /\ UNCHANGED <<fn, closes, ret, retOut, retErr, output>>
    /\ UNCHANGED <<argv, command, executed, rout, rerr>>
    /\ UNCHANGED shellVars

\* print what is not empty; return output, errors
run_return_swapped ==
    /\ pc = "return"
    /\ ret' = "pair"
    /\ retOut' = errors
    /\ retErr' = output
    /\ pc' = "finally"
    /\ UNCHANGED <<fn, exc, completed, closes, output>>
    /\ UNCHANGED runVars
    /\ UNCHANGED shellVars

run_return ==
    /\ pc = "return"
    /\ ret' = "pair"
    /\ retOut' = output
    /\ retErr' = errors
    /\ pc' = "finally"
    /\ UNCHANGED <<fn, exc, completed, closes, output>>
    /\ UNCHANGED runVars
    /\ UNCHANGED shellVars

----------------------------------------------------------------------------
(* ssh_mac_interactive.py: run_interactive_ssh *)

\* channel = client.invoke_shell(); channel.settimeout(timeout)
invoke_shell ==
    /\ pc = "invoke_shell"
    /\ Call("invoke_shell", "shell_wait")
    /\ UNCHANGED <<fn, closes, ret, retOut, retErr, output>>
    /\ UNCHANGED runVars
    /\ UNCHANGED shellVars

\* time.sleep(1)
shell_wait_none ==
    /\ pc = "shell_wait"
    /\ pc' = "drain"
    /\ UNCHANGED <<fn, exc, completed, closes, ret, retOut, retErr, output>>
    /\ UNCHANGED runVars
    /\ UNCHANGED shellVars

shell_wait ==
    /\ pc = "shell_wait"
    /\ waited' = waited + ShellWaitSeconds * TicksPerSecond
    /\ pc' = "drain"
    /\ UNCHANGED <<fn, exc, completed, closes, ret, retOut, retErr, output>>
    /\ UNCHANGED runVars
    /\ UNCHANGED <<commands, cur, sent, idle, printed, chunk, reads, ready,
                   settled, finished, silence, halfGap>>

\* while channel.recv_ready(): channel.recv(4096)
drain ==
    /\ pc = "drain"
    /\ \/ /\ ready' = FALSE
          /\ pc' = "for"
          /\ UNCHANGED <<exc, completed>>
       \/ /\ ready' = TRUE
          /\ \E c \in Chunks : pc' = "drain"
          /\ UNCHANGED <<exc, completed>>
       \/ /\ ready' = TRUE
          /\ \E e \in ExcMsgs : Raises(e)
    /\ UNCHANGED <<fn, closes, ret, retOut, retErr, output>>
    /\ UNCHANGED runVars
    /\ UNCHANGED <<commands, cur, sent, idle, printed, chunk, reads,
                   settled, finished, waited, silence, halfGap>>

\* for cmd in commands: print(f"\n>>> Running: {cmd}") ... return True
NextIndexSkipping(i) == i + 2
NextIndex(i) == i + 1

for_next ==
    /\ pc = "for"
    /\ IF NextIndex(cur) <= Len(commands)
       THEN /\ cur' = NextIndex(cur)
            /\ pc' = "send"
            /\ ret' = ret
       ELSE /\ ret' = "True"
            /\ pc' = "finally"
            /\ cur' = cur
    /\ UNCHANGED <<fn, exc, completed, closes, retOut, retErr, output>>
    /\ UNCHANGED runVars
    /\ UNCHANGED <<commands, sent, idle, printed, chunk, reads, ready,
                   settled, finished, waited, silence, halfGap>>

\* channel.send(cmd + "\n")
send ==
    /\ pc = "send"
    /\ \/ /\ sent' = Append(sent, commands[cur] \o Newline)
          /\ pc' = "settle"
          /\ UNCHANGED <<exc, completed>>
       \/ /\ \E e \in ExcMsgs : Raises(e)
          /\ sent' = sent
    /\ UNCHANGED <<fn, closes, ret, retOut, retErr, output>>
    /\ UNCHANGED runVars
    /\ UNCHANGED <<commands, cur, idle, printed, chunk, reads, ready,
                   settled, finished, waited, silence, halfGap>>

\* time.sleep(2); output = ""; start_time = time.time()
settle ==
    /\ pc = "settle"
    /\ settled' = settled + 1
    /\ output' = <<>>
    /\ idle' = 0
    /\ silence' = 0
    /\ halfGap' = FALSE
    /\ pc' = "collect"
    /\ UNCHANGED <<fn, exc, completed, closes, ret, retOut, retErr>>
    /\ UNCHANGED runVars
    /\ UNCHANGED <<commands, cur, sent, printed, chunk, reads, ready,
                   finished, waited>>

\* while time.time() - start_time < 30
WindowOpen(elapsed) == elapsed < Window

\* start_time = time.time()  (after a read)
KeepTimer(elapsed) == elapsed
ResetTimer(elapsed) == 0

\* time.sleep(0.1), seen by the next time.time() - start_time
ElapseNone(elapsed) == elapsed
Elapse(elapsed) == elapsed + PollSleep

(* One pass of the collection loop: the window test, then recv_ready();    *)
(* with data ready, recv(4096), decode, accumulate, echo and restart the   *)
(* window; without, time.sleep(0.1).  The accumulator is kept finite: at   *)
(* most MaxReads chunks that decode to some text arrive in one run, chunks *)
(* that decode to nothing arrive without limit.                            *)
collect ==
    /\ pc = "collect"
    /\ \/ /\ ~WindowOpen(idle)
          /\ finished' = finished + 1
          /\ pc' = "for"
          /\ UNCHANGED <<exc, completed, output, printed, chunk, reads,
                         ready, idle, silence, halfGap>>
       \/ /\ WindowOpen(idle)
          /\ ready' = FALSE
          /\ idle' = Elapse(idle)
          /\ silence' = IF silence < Window THEN silence + PollSleep
                                            ELSE silence
          /\ pc' = "collect"
          /\ UNCHANGED <<exc, completed, output, printed, chunk, reads,
                         finished, halfGap>>
       \/ /\ WindowOpen(idle)
          /\ ready' = TRUE
          /\ \E c \in Chunks :
                /\ reads < MaxReads \/ recv_decode(c) = <<>>
                /\ chunk' = c
                /\ output' = output \o recv_decode(c)
                /\ printed' = printed \o recv_decode(c)
                /\ reads' = IF recv_decode(c) = <<>> THEN reads ELSE reads + 1
          /\ halfGap' = (halfGap \/ 2 * silence >= Window)
          /\ idle' = ResetTimer(idle)
          /\ silence' = 0
          /\ pc' = "collect"
          /\ UNCHANGED <<exc, completed, finished>>
       \/ /\ WindowOpen(idle)
          /\ ready' = TRUE
          /\ \E e \in ExcMsgs : Raises(e)
          /\ UNCHANGED <<output, printed, chunk, reads, finished, idle,
                         silence, halfGap>>
    /\ UNCHANGED <<fn, closes, ret, retOut, retErr>>
    /\ UNCHANGED runVars
    /\ UNCHANGED <<commands, cur, sent, settled, waited>>

----------------------------------------------------------------------------
Next ==
    \/ connect
    \/ except_handler
    \/ finally_close
    \/ open_sftp
    \/ sftp_get
    \/ sftp_close_return
    \/ main
    \/ exec_command
    \/ read_stdout
    \/ read_stderr
    \/ run_return
    \/ invoke_shell
    \/ shell_wait
    \/ drain
    \/ for_next
    \/ send
    \/ settle
    \/ collect

Spec == Init /\ [][Next]_vars

(* The interpreter keeps executing the program: no call blocks for ever    *)
(* (connect has a 30 s timeout, exec_command 300 s, recv is called only    *)
(* with data ready, a sleep returns).  The channel is obliged to nothing:  *)
(* a collection loop need never find data ready.  The banner is finite:    *)
(* the drain loop meets a poll without data.                               *)
Progress ==
    /\ Next
    /\ pc = "collect" => ~ready'

LiveSpec == Init /\ [][Next]_vars /\ WF_vars(Progress)

----------------------------------------------------------------------------
(* Properties *)

Failed == exc # NoneVal
Interactive == fn = "run_interactive_ssh"
ShellWait == ShellWaitSeconds * TicksPerSecond

\* a pass of the collection loop that received a chunk
ReadStep == pc = "collect" /\ pc' = "collect" /\ ready'
\* a pass of the collection loop that found no data and slept
SilentStep == pc = "collect" /\ pc' = "collect" /\ ~ready'

(* C1: in each of the three entry points client.close() has been called    *)
(* exactly once when the function returns, whether the body completed or   *)
(* raised, and it is not called before the finally block.                  *)
C1_ClosedExactlyOnce == closes = IF pc = "done" THEN 1 ELSE 0

C1_Witness ==
    /\ pc = "done"
    /\ Interactive
    /\ Failed
    /\ reads >= 1
    /\ closes = 1

(* C2: the collection loop is left exactly when the time since the later   *)
(* of the start of collection and the last read reaches the 30 s window:   *)
(* a read restarts the count, a silent poll adds one sleep to it, the      *)
(* code's time.time() - start_time is that count, and the loop is left at  *)
(* the window and never before.                                            *)
C2_RollingWindow ==
    [][pc = "collect" =>
          /\ (pc' = "for" => silence = Window)
          /\ (silence >= Window => pc' = "for")
          /\ (ReadStep => silence' = 0)
          /\ (SilentStep => silence' = silence + PollSleep)
          /\ (pc' = "collect" => idle' = silence')
      ]_vars

\* collecting after more than a whole window of total collection time
C2_Witness ==
    /\ pc = "collect"
    /\ halfGap
    /\ 2 * silence > Window

(* C3: what has been sent is a prefix of the command queue, each command   *)
(* followed by a newline; a send happens only at the send statement, when  *)
(* every earlier command has had its settle delay and its collection loop  *)
(* has ended.                                                              *)
SentIsPrefix ==
    /\ Len(sent) <= Len(commands)
    /\ \A k \in 1..Len(sent) : sent[k] = commands[k] \o Newline

C3_OrderedNoOverlap ==
    [][/\ SentIsPrefix'
       /\ sent' # sent =>
             /\ pc = "send"
             /\ settled = Len(sent)
             /\ finished = Len(sent)
             /\ Len(sent') = Len(sent) + 1
      ]_vars

C3_Witness ==
    /\ Len(commands) = 2
    /\ Len(sent) = 2
    /\ finished = 1

(* C4: once a step of run_interactive_ssh has raised, nothing more is sent *)
(* or read and what was printed stays; the function returns False exactly  *)
(* when a step raised, and True only with every command sent and every     *)
(* collection loop ended by the window.                                    *)
C4_FailureAborts ==
    [][Interactive =>
          /\ Failed =>
                /\ sent' = sent
                /\ printed' = printed
                /\ output' = output
                /\ chunk' = chunk
                /\ ready' = ready
                /\ exc' = exc
          /\ pc' = "done" => (ret' = "False" <=> Failed')
          /\ pc' = "done" => ret' \in {"True", "False"}
          /\ ret' = "True" =>
                /\ Len(sent') = Len(commands)
                /\ finished' = Len(commands)
      ]_vars

C4_Witness ==
    /\ Interactive
    /\ pc = "done"
    /\ ret = "False"
    /\ Len(commands) = 2
    /\ Len(sent) = 1
    /\ printed # <<>>

(* C5: download_file returns True exactly when connect, open_sftp, get and *)
(* the SFTP close all returned, and False otherwise; run_ssh_command       *)
(* returns (None, str(e)) whenever a step raised; a raised exception is    *)
(* always handled inside the function.                                     *)
DownloadSteps == {"connect", "open_sftp", "get", "sftp_close"}

C5_FailuresBecomeResults ==
    /\ (fn = "download_file" /\ pc = "done") =>
          /\ ret \in {"True", "False"}
          /\ ret = "True" <=> DownloadSteps \subseteq completed
          /\ ret = "False" <=> Failed
    /\ (fn = "run_ssh_command" /\ pc = "done" /\ Failed) =>
          /\ ret = "pair"
          /\ retOut = NoneVal
          /\ retErr = exc
    /\ Failed => pc \in {"except", "finally", "done"}

C5_Witness ==
    /\ fn = "download_file"
    /\ pc = "done"
    /\ ret = "False"
    /\ completed = {"connect", "open_sftp"}

(* C6 as stated: the command is all the command-line arguments joined into *)
(* one string, the default without arguments.                              *)
C6_JoinsAllArguments ==
    (fn = "run_ssh_command" /\ pc # "main") =>
        IF Len(argv) > 1
        THEN command \in {Join(Tail(argv), Space), Join(Tail(argv), <<>>)}
        ELSE command = DefaultCommand

(* C6 amended: the command is the first command-line argument alone, later *)
(* arguments are dropped; without arguments it is the default; that        *)
(* command is what exec_command is given.                                  *)
C6_FirstArgumentOnly ==
    (fn = "run_ssh_command" /\ pc # "main") =>
        /\ command = IF Len(argv) > 1 THEN argv[2] ELSE DefaultCommand
        /\ executed \in {NoneVal, command}

C6_Witness ==
    /\ fn = "run_ssh_command"
    /\ Len(argv) = 3
    /\ executed = Arg(1)

(* C7: a successful run_ssh_command returns the text of stdout and the     *)
(* text of stderr, each stream whole and in its own component, stdout read *)
(* before stderr; an empty stream gives the empty string.                  *)
C7_SeparateStreams ==
    /\ (fn = "run_ssh_command" /\ pc = "done" /\ ~Failed) =>
          /\ ret = "pair"
          /\ retOut = decode(rout, "replace")
          /\ retErr = decode(rerr, "replace")
          /\ rout = <<>> => retOut = <<>>
          /\ rerr = <<>> => retErr = <<>>
    /\ "read_stderr" \in completed => "read_stdout" \in completed
    /\ pc = "read_stderr" => "read_stdout" \in completed

C7_Witness ==
    /\ fn = "run_ssh_command"
    /\ pc = "done"
    /\ ~Failed
    /\ rout = <<>>
    /\ rerr = <<195, 169>>
    /\ retOut = <<>>
    /\ retErr = <<233>>

(* C8 as stated: each chunk read is echoed and accumulated with every      *)
(* malformed byte replaced by the replacement marker.                      *)
C8_MalformedReplaced ==
    [][ReadStep =>
          /\ printed' = printed \o decode(chunk', "replace")
          /\ output' = output \o decode(chunk', "replace")
      ]_vars

(* C8 amended: each chunk read is echoed and accumulated, in arrival       *)
(* order, with every malformed byte dropped (nothing is put in its place); *)
(* no chunk makes the decode raise.                                        *)
C8_MalformedDropped ==
    [][ReadStep =>
          /\ printed' = printed \o decode(chunk', "ignore")
          /\ output' = output \o decode(chunk', "ignore")
          /\ ~Failed'
      ]_vars

C8_Witness ==
    /\ pc = "collect"
    /\ chunk = <<65, 195>>
    /\ printed = <<233, 65>>
    /\ output = <<65>>

(* C9 as stated: no sleep happens between shell allocation and the first   *)
(* send.                                                                   *)
C9_NoSleepBeforeDrain ==
    (Interactive /\ pc \in {"drain", "send"} /\ sent = <<>>) => waited = 0

(* C9 amended: the driver sleeps 1 s after shell allocation and before the *)
(* drain; the drain itself sleeps nothing, prints and accumulates nothing, *)
(* and ends only on a poll that reports no data; the first send follows    *)
(* such a poll.                                                            *)
C9_DrainAfterOneSecond ==
    [][Interactive =>
          /\ pc = "drain" =>
                /\ waited = ShellWait
                /\ waited' = waited
                /\ idle' = idle
                /\ printed' = printed
                /\ output' = output
                /\ chunk' = chunk
                /\ (pc' = "for" <=> (~ready' /\ ~Failed'))
          /\ (pc' = "send" /\ sent' = <<>>) =>
                /\ ~ready'
                /\ waited' = ShellWait
                /\ printed' = <<>>
      ]_vars

C9_Witness ==
    /\ pc = "drain"
    /\ ready
    /\ waited = ShellWait
    /\ printed = <<>>

(* C10: run_interactive_ssh returns if and only if the channel at last     *)
(* stops delivering data to the collection loops (a raise ends them too);  *)
(* with a channel that keeps delivering the loop is never left, and when   *)
(* it returns without a raise it returns True with every command sent and  *)
(* every loop ended by the window.                                         *)
C10_ReturnsIffSilent ==
    /\ (<>[][~ReadStep]_vars) => <>(pc = "done")
    /\ <>(pc = "done") => <>[][~ReadStep]_vars
    /\ [](pc = "done" /\ Interactive /\ ~Failed =>
             /\ ret = "True"
             /\ Len(sent) = Len(commands)
             /\ finished = Len(commands))

\* the second command's loop running after the first one ended
C10_Witness ==
    /\ pc = "collect"
    /\ cur = 2
    /\ finished = 1
    /\ halfGap
    /\ 2 * silence > Window

====
